---- MODULE Spec2Model ----
(***************************************************************************)
(* Model of lightrag/llm/bedrock.py: the completion pipeline               *)
(* (bedrock_complete -> bedrock_complete_if_cache) and the embedding       *)
(* pipeline (bedrock_embed), each wrapped in a tenacity retry policy, the  *)
(* client sessions they open and the process-wide credential variables     *)
(* they write.                                                             *)
(*                                                                         *)
(* Tasks are asyncio tasks.  One action is the code a task runs between    *)
(* two suspension points (await), so the actions of different tasks        *)
(* interleave exactly where the event loop can switch tasks.               *)
(***************************************************************************)
EXTENDS Integers, Sequences, FiniteSets, TLC

\* ------------------------------------------------------------------ bounds
\* Longest list of texts handed to bedrock_embed.
MaxTexts == 2
\* Longest history handed to bedrock_complete_if_cache.
MaxHistory == 2

\* ------------------------------------------------------------- vocabulary
Tasks == {"t1", "t2"}

\* Python's None, an unset environment variable, the empty string.
None == "None"
Unset == "<unset>"
Empty == ""

\* The three credential variables, in the order the code writes them.
CredOrder == <<"AWS_ACCESS_KEY_ID", "AWS_SECRET_ACCESS_KEY", "AWS_SESSION_TOKEN">>
CredVars == {CredOrder[i] : i \in 1..Len(CredOrder)}

\* Python truthiness of an optional string argument.
Truthy(v) == v \notin {None, Empty, "False"}

\* ------------------------------------------------------ exception classes
\* The class each exception class derives from (botocore's intermediate
\* classes HTTPClientError and ConnectionError are folded into BotoCoreError).
ParentClass ==
  [ BedrockError            |-> "Exception",
    RetryError              |-> "Exception",
    ClientError             |-> "Exception",
    BotoCoreError           |-> "Exception",
    EndpointConnectionError |-> "BotoCoreError",
    ConnectionClosedError   |-> "BotoCoreError",
    ReadTimeoutError        |-> "BotoCoreError",
    ConnectTimeoutError     |-> "BotoCoreError",
    ParamValidationError    |-> "BotoCoreError",
    NoRegionError           |-> "BotoCoreError",
    RuntimeError            |-> "Exception",
    TypeError               |-> "Exception",
    KeyError                |-> "Exception",
    ValueError              |-> "Exception",
    Exception               |-> "BaseException" ]

RECURSIVE IsInstance(_, _)
IsInstance(exc, cls) ==
  IF exc = cls THEN TRUE
  ELSE IF exc \in DOMAIN ParentClass THEN IsInstance(ParentClass[exc], cls)
  ELSE FALSE

\* What a remote request (converse, invoke_model) can raise: the six classes
\* the embedding policy names, and a class outside them.
TransportErrors ==
  { "ClientError", "EndpointConnectionError", "ConnectionClosedError",
    "ReadTimeoutError", "ConnectTimeoutError", "BotoCoreError" }
RemoteErrors == TransportErrors \cup {"RuntimeError"}

\* What creating the client (entering `async with session.client(...)`) can
\* raise: a botocore configuration error or anything else.
OpenErrors == {"NoRegionError", "RuntimeError"}

\* ---------------------------------------------------------- retry policies
CompleteStopAfter == 5
EmbedStopAfter == 3

CompleteRetryOn == {"BedrockError"}
EmbedRetryOn == TransportErrors

CompletePolicy == [stop |-> CompleteStopAfter, retryOn |-> CompleteRetryOn]
EmbedPolicy == [stop |-> EmbedStopAfter, retryOn |-> EmbedRetryOn]

\* retry_if_exception_type: isinstance against the listed classes.
ShouldRetryExact(policy, exc) == exc \in policy.retryOn
ShouldRetryAny(policy, exc) == IsInstance(exc, "Exception")
ShouldRetry(policy, exc) == \E cls \in policy.retryOn : IsInstance(exc, cls)

\* stop_after_attempt(n): stop once the attempt number reaches n.
StopAfterAttemptOff(policy, attempt) == attempt > policy.stop
StopAfterAttempt(policy, attempt) == attempt >= policy.stop

\* ------------------------------------------------------------------- values
NoValue == [tag |-> "none", cls |-> "", cause |-> "", text |-> <<>>]
Raise(cls) == [tag |-> "raise", cls |-> cls, cause |-> "", text |-> <<>>]
RaiseFrom(cls, cause) == [tag |-> "raise", cls |-> cls, cause |-> cause, text |-> <<>>]
Return(text) == [tag |-> "return", cls |-> "", cause |-> "", text |-> text]
\* A converse response: the text at output.message.content[0].text, or a
\* response without that path.
Response(text) == [tag |-> "response", cls |-> "", cause |-> "", text |-> text]
Malformed == [tag |-> "malformed", cls |-> "", cause |-> "", text |-> <<>>]

\* What tenacity does with an attempt that raised `exc`: hand the exception
\* on unchanged when the policy does not retry it, raise RetryError (from the
\* last exception) when the policy's stop is reached, sleep otherwise.
AfterFailedAttempt(policy, exc, attempt) ==
  IF ~ShouldRetry(policy, exc) THEN [pc |-> "done", outcome |-> Raise(exc)]
  ELSE IF StopAfterAttempt(policy, attempt)
       THEN [pc |-> "done", outcome |-> RaiseFrom("RetryError", exc)]
  ELSE [pc |-> "backoff", outcome |-> NoValue]


\* --------------------------------------------------------------------- text
\* Texts are sequences of characters.
ResponseTexts == { <<"a">>, <<"a", "{", "a", "}", "a">> }

\* None as a returned value (no sequence of characters equals it).
NoneText == <<None>>

\* lightrag.utils.locate_json_string_body_from_string: the body from the first
\* "{" to the last "}" of the text, None when the text holds no such body.
LocateJsonString(text) ==
  LET opens == {i \in 1..Len(text) : text[i] = "{"}
      closes == {i \in 1..Len(text) : text[i] = "}"}
  IN IF opens = {} THEN NoneText
     ELSE LET first == CHOOSE i \in opens : \A j \in opens : i <= j
              after == {i \in closes : i > first}
          IN IF after = {} THEN NoneText
             ELSE LET last == CHOOSE i \in after : \A j \in after : j <= i
                  IN SubSeq(text, first, last)

\* ------------------------------------------------------------- environment
\* os.environ.get(name, default)
EnvironGetArgFirst(e, name, default) == IF default # None THEN default ELSE e[name]
EnvironGet(e, name, default) == IF e[name] # Unset THEN e[name] ELSE default

\* Lines 42-50: os.environ[name] = os.environ.get(name, argument), for the
\* three variables in turn.  Storing None in os.environ raises TypeError and
\* leaves the variables after it untouched.
RECURSIVE FillCredentials(_, _, _)
FillCredentials(e, creds, i) ==
  IF i > Len(CredOrder) THEN [env |-> e, exc |-> None]
  ELSE LET name == CredOrder[i]
           v == EnvironGet(e, name, creds[name])
       IN IF v = None THEN [env |-> e, exc |-> "TypeError"]
          ELSE FillCredentials([e EXCEPT ![name] = v], creds, i + 1)

\* ------------------------------------------------------------------ inputs
\* Credential arguments: each of the three not given (None), the empty
\* string, or a key.
NoCreds == CHOOSE c \in [CredVars -> {None}] : TRUE
CredArgs == [CredVars -> {None, Empty, "c1"}]

\* The credentials concurrent tasks supply: each task its own key, for all
\* three variables, for the first only, or for none.
KeyOf == [t1 |-> "c1", t2 |-> "c2"]
OwnCredArgs(t) ==
  { c \in [CredVars -> {None, KeyOf[t]}] :
      /\ c[CredOrder[2]] = c[CredOrder[3]]
      /\ c[CredOrder[2]] = None \/ c[CredOrder[1]] # None }

\* Keyword arguments of a bedrock_complete call: any of keyword_extraction,
\* stream and hashing_kv may be given.
KwValues == [keyword_extraction |-> {"True", "False"}, stream |-> {"True"},
             hashing_kv |-> {"kv"}]
KwArgs ==
  UNION { {kw \in [keys -> {"True", "False", "kv"}] :
             \A k \in keys : kw[k] \in KwValues[k]} :
          keys \in SUBSET {"keyword_extraction", "stream", "hashing_kv"} }
NoKw == [k \in {} |-> "kv"]

\* Keyword arguments of a bedrock_complete_if_cache call: any of the four
\* inference parameters, the cache handle, a provider option the function
\* does not know and an option named like an argument the function sets.
InferenceKwValue ==
  [ max_tokens |-> "256", temperature |-> "0.5", top_p |-> "0.9",
    stop_sequences |-> "stop", hashing_kv |-> "kv", toolConfig |-> "tools",
    messages |-> "mine" ]
InferenceKwArgs ==
  UNION { {kw \in [keys -> {InferenceKwValue[k] : k \in DOMAIN InferenceKwValue}] :
             \A k \in keys : kw[k] = InferenceKwValue[k]} :
          keys \in SUBSET DOMAIN InferenceKwValue }

\* The content of a turn: a text, wrapped `wraps` times as [{"text": ...}].
Plain(text) == [wraps |-> 0, text |-> text]
Turn(role, text) == [role |-> role, content |-> Plain(text)]

\* Histories: the first n of these turns.
SomeHistory ==
  << Turn("user", "h1"), Turn("assistant", "h2"),
     Turn("user", "h3"), Turn("assistant", "h4") >>
Histories == {SubSeq(SomeHistory, 1, n) : n \in 0..MaxHistory}
Prompt == "p"
LlmModel == <<"l", "l", "m">>

\* dict.pop(key, default): the value and the dictionary without the key.
Pop(d, key, default) ==
  [value |-> IF key \in DOMAIN d THEN d[key] ELSE default,
   rest |-> [k \in DOMAIN d \ {key} |-> d[k]]]

\* Python binds a keyword argument that names a parameter to that parameter;
\* **kwargs receives only the others.
BindParam(kw, name, default) == IF name \in DOMAIN kw THEN kw[name] ELSE default
BindRest(kw, params) == [k \in DOMAIN kw \ params |-> kw[k]]

\* Model identifiers, as sequences of characters.
TitanV2 == <<"a","m","a","z","o","n",".","t","i","t","a","n","-","e","m","b",
             "e","d","-","t","e","x","t","-","v","2",":","0">>
TitanV1 == <<"a","m","a","z","o","n",".","t","i","t","a","n","-","e","m","b",
             "e","d","-","t","e","x","t","-","v","1">>
TitanG1 == <<"a","m","a","z","o","n",".","t","i","t","a","n","-","e","m","b",
             "e","d","-","g","1">>
CohereV3 == <<"c","o","h","e","r","e",".","e","m","b","e","d","-","v","3">>
UnknownFoo == <<"u","n","k","n","o","w","n",".","f","o","o">>
DefaultEmbeddingModel == TitanV2
ModelArgs == {NoneText, TitanV2, TitanV1, TitanG1, CohereV3, UnknownFoo}

\* Lists of texts to embed: the first n of these texts.
SomeTexts == <<"x", "y", "z", "w">>
TextLists == {SubSeq(SomeTexts, 1, n) : n \in 0..MaxTexts}

\* str.split(".")[0]: the characters before the first "."
FirstSegment(str) ==
  LET dots == {i \in 1..Len(str) : str[i] = "."}
  IN IF dots = {} THEN str
     ELSE SubSeq(str, 1, (CHOOSE i \in dots : \A j \in dots : i <= j) - 1)

\* `sub in str` for strings.
Contains(str, sub) ==
  \E i \in 1..(Len(str) - Len(sub) + 1) : SubSeq(str, i, i + Len(sub) - 1) = sub

\* ----------------------------------------------------------------- requests
\* JSON text, as a sequence of tokens.
RECURSIVE JsonJoin(_)
JsonJoin(parts) ==
  IF parts = <<>> THEN <<>>
  ELSE IF Len(parts) = 1 THEN parts[1]
  ELSE parts[1] \o <<",">> \o JsonJoin(Tail(parts))

JsonString(str) == <<"\"", str, "\"">>
JsonArray(items) == <<"[">> \o JsonJoin(items) \o <<"]">>

\* json.dumps of a dict: its members in insertion order, each a key and the
\* JSON text of its value.
JsonDumps(members) ==
  <<"{">>
  \o JsonJoin([i \in 1..Len(members) |->
                 JsonString(members[i][1]) \o <<":">> \o members[i][2]])
  \o <<"}">>

\* Lines 159-168: the body of the request for one text of an amazon model.
AmazonBodyPlain(marker, text) ==
  JsonDumps(<< <<"inputText", JsonString(text)>> >>)
AmazonBody(marker, text) ==
  IF marker = "v2"
  THEN JsonDumps(<< <<"inputText", JsonString(text)>>,
                    <<"embeddingTypes", JsonArray(<< JsonString("float") >>)>> >>)
  ELSE JsonDumps(<< <<"inputText", JsonString(text)>> >>)

\* Lines 183-185: the body of the one request of a cohere model.
CohereBody(texts) ==
  JsonDumps(<< <<"texts", JsonArray([i \in 1..Len(texts) |-> JsonString(texts[i])])>>,
               <<"input_type", JsonString("search_document")>>,
               <<"truncate", JsonString("NONE")>> >>)

\* copy.copy(history_message), line 55: a new dict with the items of the
\* turn, which shares nothing a later item assignment changes.
CopyAlias(obj) == [value |-> obj, shared |-> TRUE]
CopyCopy(obj) == [value |-> obj, shared |-> FALSE]

\* [{"text": content}], lines 56 and 60.
KeepContent(content) == content
WrapContent(content) == [content EXCEPT !.wraps = @ + 1]

\* Lines 53-57: the loop over history_messages from turn i on; an item
\* assignment to a message that shares the caller's dict changes the
\* caller's history.
RECURSIVE FixHistory(_, _, _)
FixHistory(history, i, messages) ==
  IF i > Len(history) THEN [history |-> history, messages |-> messages]
  ELSE LET message == CopyCopy(history[i])
           fixed == [message.value EXCEPT !.content = WrapContent(@)]
       IN FixHistory(IF message.shared THEN [history EXCEPT ![i] = fixed]
                     ELSE history,
                     i + 1, Append(messages, fixed))

\* Line 60: the user turn of the prompt.
UserTurn(prompt) == [role |-> "user", content |-> WrapContent(Plain(prompt))]

\* Lines 70-76: the recognized inference parameters and their names in
\* inferenceConfig.
InferenceParams == {"max_tokens", "temperature", "top_p", "stop_sequences"}
InferenceParamsMap ==
  [max_tokens |-> "maxTokens", top_p |-> "topP", stop_sequences |-> "stopSequences"]
TranslateNone(param) == param
Translate(param) ==
  IF param \in DOMAIN InferenceParamsMap THEN InferenceParamsMap[param] ELSE param

\* Lines 75-82: inferenceConfig, from the recognized keys of kwargs.
InferenceConfig(kwargs) ==
  LET present == DOMAIN kwargs \cap InferenceParams
  IN [name \in {Translate(param) : param \in present} |->
        kwargs[CHOOSE param \in present : Translate(param) = name]]

\* Lines 51 and 81: kwargs as line 88 passes it on, without hashing_kv and
\* the recognized keys.
PassedOn(kwargs) ==
  [k \in DOMAIN kwargs \ (InferenceParams \cup {"hashing_kv"}) |-> kwargs[k]]

\* The names args holds at line 88 (system_prompt is not given).
ArgsNames(kwargs) ==
  {"modelId", "messages"}
  \cup (IF DOMAIN kwargs \cap InferenceParams # {} THEN {"inferenceConfig"} ELSE {})

\* A remote request: the operation, the names of its keyword arguments, and
\* the arguments the claims read (body of invoke_model; messages,
\* inferenceConfig and the keyword arguments passed through of converse).
NoRequest ==
  [ operation |-> "none", args |-> {}, modelId |-> NoneText, body |-> <<>>,
    messages |-> <<>>, inferenceConfig |-> NoKw, passed |-> NoKw ]

\* Lines 51-83: the arguments of converse(**args, **kwargs).
ConverseRequest(model, messages, kwargs) ==
  [NoRequest EXCEPT !.operation = "converse",
                    !.args = ArgsNames(kwargs) \cup DOMAIN PassedOn(kwargs),
                    !.modelId = model,
                    !.messages = messages,
                    !.inferenceConfig = InferenceConfig(kwargs),
                    !.passed = PassedOn(kwargs)]

\* ------------------------------------------------------------------- state
VARIABLES
  env,        \* os.environ: the credential variables, AWS_REGION and
              \* AWS_EMBEDDING_MODEL_NAME
  calls       \* per task: the call it makes and where that call stands

vars == <<env, calls>>

CompleteKinds == {"bedrock_complete", "bedrock_complete_if_cache"}

Idle ==
  [ kind |-> "none", creds |-> NoCreds,
    requested |-> "False", keyword_extraction |-> None, kwargs |-> NoKw,
    modelArg |-> NoneText, model |-> NoneText, texts |-> <<>>, rows |-> <<>>,
    pc |-> "idle", attempt |-> 0, remoteCalls |-> 0,
    sessions |-> {}, pending |-> NoValue, raw |-> <<>>, outcome |-> NoValue,
    replaced |-> NoCreds, request |-> NoRequest,
    history_messages |-> <<>>, historyGiven |-> <<>> ]

\* Fields of a call record: kind, creds, modelArg and texts are the call's
\* arguments; requested is the keyword_extraction argument as the caller gave
\* it and keyword_extraction the local name after line 103; attempt counts
\* the attempts the retry policy has started and remoteCalls the requests
\* sent; sessions holds the client sessions the call has open, each named by
\* the attempt that opened it; pending is the response or exception in
\* hand (while the task sleeps between attempts: the exception the retry
\* policy holds); raw is the text of the last well-formed response; rows
\* are the embeddings collected; outcome is what the caller receives;
\* request is the last request the call built (converse) or sent
\* (invoke_model); history_messages is the caller's history list as it is
\* now and historyGiven as it was when the call was made; kwargs are the
\* keyword arguments of the call, which every attempt receives anew.

PolicyOf(kind) == IF kind \in CompleteKinds THEN CompletePolicy ELSE EmbedPolicy

UnsetModel == <<Unset>>
EnvVars == CredVars \cup {"AWS_REGION", "AWS_EMBEDDING_MODEL_NAME"}

Environ(creds, region, name) ==
  [v \in EnvVars |-> IF v \in CredVars THEN creds[v]
                     ELSE IF v = "AWS_REGION" THEN region ELSE name]

Init ==
  /\ \E creds \in [CredVars -> {Unset, "preset"}],
        rest \in { <<Unset, UnsetModel>>, <<"us-east-1", UnsetModel>>,
                   <<"us-east-1", CohereV3>> } :
       env = Environ(creds, rest[1], rest[2])
  /\ calls = [t \in Tasks |-> Idle]

\* What call c has replaced in the credential variables once it has taken
\* the environment from e to e2 (kept for the record; the code does not).
Replaced(c, e, e2) ==
  [v \in CredVars |-> IF e2[v] # e[v] THEN e[v] ELSE c.replaced[v]]

\* The call of task t moves to record c; nothing else changes.
Step(t, c) == calls' = [calls EXCEPT ![t] = c]

EnvUnchanged == UNCHANGED env

\* The attempt of call c ended by raising exc: tenacity's decision.
Failed(c, exc) ==
  LET d == AfterFailedAttempt(PolicyOf(c.kind), exc, c.attempt)
  IN [c EXCEPT !.pc = d.pc, !.outcome = d.outcome,
               !.pending = IF d.pc = "backoff" THEN Raise(exc) ELSE NoValue]

\* ------------------------------------------------------ completion pipeline
\* A caller awaits bedrock_complete(prompt, **kw), lines 96-112.  The
\* parameter keyword_extraction takes the caller's keyword argument of that
\* name, so **kwargs never holds it; line 103 then rebinds the name to
\* kwargs.pop("keyword_extraction", None).  Line 104 reads
\* kwargs["hashing_kv"] (KeyError when absent), line 105 drops "stream", and
\* the rest goes to bedrock_complete_if_cache.
BedrockComplete(t, credArgs) ==
  /\ calls[t].pc = "idle"
  /\ \E creds \in credArgs, kw \in KwArgs :
       LET param == BindParam(kw, "keyword_extraction", "False")
           kwargs == BindRest(kw, {"keyword_extraction"})
           popped == Pop(kwargs, "keyword_extraction", None)
           nostream == Pop(popped.rest, "stream", None).rest
           c == [Idle EXCEPT !.kind = "bedrock_complete", !.creds = creds,
                             !.requested = param,
                             !.keyword_extraction = popped.value]
       IN IF "hashing_kv" \notin DOMAIN popped.rest
          THEN Step(t, [c EXCEPT !.pc = "done", !.outcome = Raise("KeyError")])
          ELSE Step(t, [c EXCEPT !.pc = "ready", !.kwargs = nostream,
                                 !.model = LlmModel])
  /\ EnvUnchanged

\* A caller awaits bedrock_complete_if_cache(model, prompt, ...) directly.
BedrockCompleteIfCache(t, credArgs, histories, kwArgs) ==
  /\ calls[t].pc = "idle"
  /\ \E creds \in credArgs, history \in histories, kw \in kwArgs :
       Step(t, [Idle EXCEPT !.kind = "bedrock_complete_if_cache",
                            !.creds = creds, !.model = LlmModel,
                            !.history_messages = history,
                            !.historyGiven = history,
                            !.kwargs = kw, !.pc = "ready"])
  /\ EnvUnchanged

\* bedrock_complete, lines 113-115: what the entry point returns for the text
\* bedrock_complete_if_cache returned.
BedrockCompleteResult(c, text) ==
  IF c.kind = "bedrock_complete" /\ Truthy(c.keyword_extraction)
  THEN LocateJsonString(text)
  ELSE text

\* One attempt of bedrock_complete_if_cache begins (first call or after the
\* backoff sleep), lines 42-86: the credential variables are filled, the
\* request is built, and the task suspends entering the client context.
CompleteAttempt(t) ==
  LET c == calls[t]
      n == c.attempt + 1
      filled == FillCredentials(env, c.creds, 1)
      fixed == FixHistory(c.history_messages, 1, <<>>)
      messages == Append(fixed.messages, UserTurn(Prompt))
  IN /\ c.kind \in CompleteKinds
     /\ c.pc \in {"ready", "backoff"}
     /\ env' = filled.env
     /\ IF filled.exc # None
        THEN Step(t, Failed([c EXCEPT !.attempt = n,
                                      !.replaced = Replaced(c, env, filled.env)],
                            filled.exc))
        ELSE Step(t, [c EXCEPT !.attempt = n, !.pc = "opening",
                               !.pending = NoValue,
                               !.replaced = Replaced(c, env, filled.env),
                               !.history_messages = fixed.history,
                               !.request = ConverseRequest(c.model, messages,
                                                           c.kwargs)])

\* `async with session.client("bedrock-runtime")` is entered (lines 86, 155):
\* the attempt holds a new client session, or creating it raised.
OpenSession(t) ==
  LET c == calls[t]
  IN /\ c.pc = "opening"
     /\ \/ Step(t, [c EXCEPT !.sessions = c.sessions \cup {c.attempt},
                             !.pc = IF c.kind \in CompleteKinds THEN "converse"
                                    ELSE "dispatch"])
        \/ \E exc \in OpenErrors : Step(t, Failed(c, exc))
     /\ EnvUnchanged

\* Lines 87-90: what leaves the try block around converse when the request
\* raised exc.
ConverseRaised(exc) == Raise("BedrockError")

\* Line 88: converse(**args, **kwargs) is a TypeError, raised before
\* anything is sent, when kwargs holds a name args holds too.
CallError(request) ==
  IF DOMAIN request.passed \cap {"modelId", "messages", "system", "inferenceConfig"} # {}
  THEN "TypeError"
  ELSE None

\* Lines 87-90: the converse request is issued and answered.
Converse(t) ==
  LET c == calls[t]
  IN /\ c.pc = "converse"
     /\ IF CallError(c.request) # None
        THEN Step(t, [c EXCEPT !.pending = ConverseRaised(CallError(c.request)),
                               !.pc = "closing"])
        ELSE \E answer \in {Response(text) : text \in ResponseTexts}
                           \cup {Malformed}
                           \cup {ConverseRaised(exc) : exc \in RemoteErrors} :
               Step(t, [c EXCEPT !.remoteCalls = c.remoteCalls + 1,
                                 !.pending = answer, !.pc = "closing"])
     /\ EnvUnchanged

\* Line 92, after the client context is left: the text of the response, or
\* the KeyError of a response without output.message.content[0].text.
ExtractTextWrapped(c) ==
  IF c.pending.tag = "malformed" THEN Failed(c, "BedrockError")
  ELSE [c EXCEPT !.pc = "done", !.pending = NoValue, !.raw = c.pending.text,
                 !.outcome = Return(BedrockCompleteResult(c, c.pending.text))]
ExtractText(c) ==
  IF c.pending.tag = "malformed" THEN Failed(c, "KeyError")
  ELSE [c EXCEPT !.pc = "done", !.pending = NoValue, !.raw = c.pending.text,
                 !.outcome = Return(BedrockCompleteResult(c, c.pending.text))]

\* The client context is left (__aexit__): the session is closed, then the
\* pending exception goes to the retry policy or the function goes on.
SessionsAfterExitLeak(c) ==
  IF c.pending.tag = "raise" THEN c.sessions ELSE c.sessions \ {c.attempt}
SessionsAfterExit(c) == c.sessions \ {c.attempt}

CloseSession(t) ==
  LET c == calls[t]
      closed == [c EXCEPT !.sessions = SessionsAfterExit(c)]
  IN /\ c.pc = "closing"
     /\ IF c.pending.tag = "raise" THEN Step(t, Failed(closed, c.pending.cls))
        ELSE IF c.kind \in CompleteKinds THEN Step(t, ExtractText(closed))
        ELSE Step(t, [closed EXCEPT !.pc = "done", !.pending = NoValue,
                                    !.outcome = c.pending])
     /\ EnvUnchanged

\* ------------------------------------------------------- embedding pipeline
\* A caller awaits bedrock_embed(texts, model, credentials).
BedrockEmbed(t, credArgs, modelArgs, textLists) ==
  /\ calls[t].pc = "idle"
  /\ \E creds \in credArgs, model \in modelArgs, texts \in textLists :
       Step(t, [Idle EXCEPT !.kind = "bedrock_embed", !.creds = creds,
                            !.modelArg = model, !.texts = texts, !.pc = "ready"])
  /\ EnvUnchanged

\* Lines 147-152: each credential given (truthy) is stored.
SetCredentialsIfUnset(e, creds) ==
  [v \in DOMAIN e |-> IF v \in CredVars /\ Truthy(creds[v]) /\ e[v] = Unset
                      THEN creds[v] ELSE e[v]]
SetCredentials(e, creds) ==
  [v \in DOMAIN e |-> IF v \in CredVars /\ Truthy(creds[v]) THEN creds[v] ELSE e[v]]

\* Line 144: model or os.getenv("AWS_EMBEDDING_MODEL_NAME", default)
EffectiveModel(arg, e) ==
  IF arg # NoneText THEN arg
  ELSE IF e["AWS_EMBEDDING_MODEL_NAME"] # UnsetModel
       THEN e["AWS_EMBEDDING_MODEL_NAME"]
  ELSE DefaultEmbeddingModel

\* One attempt of bedrock_embed begins, lines 139-155: the region check, the
\* model, the credentials, and the task suspends entering the client context.
EmbedAttempt(t) ==
  LET c == calls[t]
      n == c.attempt + 1
  IN /\ c.kind = "bedrock_embed"
     /\ c.pc \in {"ready", "backoff"}
     /\ IF env["AWS_REGION"] \in {Unset, Empty}
        THEN /\ Step(t, Failed([c EXCEPT !.attempt = n], "ValueError"))
             /\ EnvUnchanged
        ELSE LET e2 == SetCredentials(env, c.creds)
             IN /\ Step(t, [c EXCEPT !.attempt = n, !.pc = "opening",
                                     !.pending = NoValue,
                                     !.model = EffectiveModel(c.modelArg, env),
                                     !.replaced = Replaced(c, env, e2)])
                /\ env' = e2

\* Lines 159-170: the version marker that shapes an amazon request body.
VersionMarkerLax(model) ==
  IF Contains(model, <<"v", "2">>) THEN "v2" ELSE "v1"
VersionMarker(model) ==
  IF Contains(model, <<"v", "2">>) THEN "v2"
  ELSE IF Contains(model, <<"v", "1">>) THEN "v1"
  ELSE "none"

\* Line 157: embed_texts as the amazon branch of an attempt starts with it.
KeptEmbedTexts(c) == c.rows
NewEmbedTexts(c) == <<>>

\* Lines 156-170, 182-185, 197-198: the provider is chosen and the first
\* request prepared.
EmbedDispatch(t) ==
  LET c == calls[t]
      provider == FirstSegment(c.model)
      leave(result) == [c EXCEPT !.rows = <<>>, !.pending = result, !.pc = "closing"]
  IN /\ c.pc = "dispatch"
     /\ IF provider = <<"a","m","a","z","o","n">>
        THEN IF c.texts = <<>> THEN Step(t, leave(Return(<<>>)))
             ELSE IF VersionMarker(c.model) = "none"
                  THEN Step(t, leave(Raise("ValueError")))
             ELSE Step(t, [c EXCEPT !.rows = NewEmbedTexts(c), !.pc = "invoke"])
        ELSE IF provider = <<"c","o","h","e","r","e">>
             THEN Step(t, [c EXCEPT !.pc = "invoke"])
        ELSE Step(t, leave(Raise("ValueError")))
     /\ EnvUnchanged

\* The keyword arguments of the invoke_model call, lines 172-177 (amazon)
\* and 187-192 (cohere).
InvokeArgs(provider) ==
  IF provider = <<"a","m","a","z","o","n">>
  THEN {"modelId", "body", "accept", "contentType"}
  ELSE {"model", "body", "accept", "contentType"}

\* botocore validates the arguments of InvokeModel before it sends anything:
\* modelId and body are required, and no argument outside the operation's
\* parameters is accepted.
ValidateInvokeModel(args) ==
  IF {"modelId", "body"} \subseteq args
     /\ args \subseteq {"modelId", "body", "accept", "contentType", "trace",
                        "guardrailIdentifier", "guardrailVersion"}
  THEN None
  ELSE "ParamValidationError"

\* The embedding the provider returns for a text, as received in attempt n.
Embedding(text, n) == [text |-> text, attempt |-> n]

\* Lines 172-181 (amazon, one text) and 187-196 (cohere, all texts): the
\* request is issued and its response read.
InvokeModel(t) ==
  LET c == calls[t]
      provider == FirstSegment(c.model)
      invalid == ValidateInvokeModel(InvokeArgs(provider))
      raised(exc) == [c EXCEPT !.pending = Raise(exc), !.pc = "closing"]
      request == [NoRequest EXCEPT
                    !.operation = "invoke_model",
                    !.args = InvokeArgs(provider),
                    !.modelId = c.model,
                    !.body = IF provider = <<"a","m","a","z","o","n">>
                             THEN AmazonBody(VersionMarker(c.model),
                                             c.texts[Len(c.rows) + 1])
                             ELSE CohereBody(c.texts)]
      sent == [c EXCEPT !.remoteCalls = c.remoteCalls + 1, !.request = request]
  IN /\ c.pc = "invoke"
     /\ IF invalid # None THEN Step(t, raised(invalid))
        ELSE \/ \E exc \in RemoteErrors :
                  Step(t, [raised(exc) EXCEPT !.remoteCalls = c.remoteCalls + 1,
                                              !.request = request])
             \/ IF provider = <<"a","m","a","z","o","n">>
                THEN LET rows == Append(c.rows, Embedding(c.texts[Len(c.rows) + 1],
                                                          c.attempt))
                     IN IF Len(rows) = Len(c.texts)
                        THEN Step(t, [sent EXCEPT !.rows = rows, !.pc = "closing",
                                                  !.pending = Return(<<>>)])
                        ELSE Step(t, [sent EXCEPT !.rows = rows])
                ELSE Step(t, [sent EXCEPT
                                !.rows = [i \in 1..Len(c.texts) |->
                                            Embedding(c.texts[i], c.attempt)],
                                !.pc = "closing", !.pending = Return(<<>>)])
     /\ EnvUnchanged

\* One call, with any arguments, from any initial environment.
Next ==
  \E t \in {"t1"} :
    \/ BedrockComplete(t, CredArgs)
    \/ BedrockCompleteIfCache(t, CredArgs, {<<>>}, {NoKw})
    \/ BedrockEmbed(t, CredArgs, ModelArgs, TextLists)
    \/ CompleteAttempt(t)
    \/ EmbedAttempt(t)
    \/ OpenSession(t)
    \/ Converse(t)
    \/ EmbedDispatch(t)
    \/ InvokeModel(t)
    \/ CloseSession(t)

Spec == Init /\ [][Next]_vars

\* Two tasks, each making one call, after or during the other's: a
\* completion call or an embedding of one text with the default model, each
\* task supplying its own key (an embedding call possibly empty strings); at
\* the start none, the first or all of the credential variables are set.
InitConcurrent ==
  /\ \E set \in {{}, {CredOrder[1]}, CredVars} :
       env = Environ([v \in CredVars |-> IF v \in set THEN "preset" ELSE Unset],
                     "us-east-1", UnsetModel)
  /\ calls = [t \in Tasks |-> Idle]

NextConcurrent ==
  \E t \in Tasks :
    \/ BedrockCompleteIfCache(t, OwnCredArgs(t), {<<>>}, {NoKw})
    \/ BedrockEmbed(t, OwnCredArgs(t) \cup [CredVars -> {Empty}],
                    {NoneText}, {<<"x">>})
    \/ CompleteAttempt(t)
    \/ EmbedAttempt(t)
    \/ OpenSession(t)
    \/ Converse(t)
    \/ EmbedDispatch(t)
    \/ InvokeModel(t)
    \/ CloseSession(t)

SpecConcurrent == InitConcurrent /\ [][NextConcurrent]_vars

\* One completion call with any history and any keyword arguments, the
\* credential variables being set.
InitRequest ==
  /\ env = Environ([v \in CredVars |-> "preset"], "us-east-1", UnsetModel)
  /\ calls = [t \in Tasks |-> Idle]

NextRequest ==
  \E t \in {"t1"} :
    \/ BedrockCompleteIfCache(t, {NoCreds}, Histories, InferenceKwArgs)
    \/ CompleteAttempt(t)
    \/ OpenSession(t)
    \/ Converse(t)
    \/ CloseSession(t)

SpecRequest == InitRequest /\ [][NextRequest]_vars

\* ------------------------------------------------------------------ claims
IsComplete(c) == c.kind \in CompleteKinds
IsEmbed(c) == c.kind = "bedrock_embed"
Exhausted(c) == c.pc = "done" /\ c.outcome.tag = "raise" /\ c.outcome.cls = "RetryError"

\* C1: a completion call whose converse request fails on every attempt makes
\* exactly 5 requests before an error reaches the caller: the call is given
\* up only at the fifth failed request, it sleeps for another attempt after
\* each earlier one, and it never sends a sixth.
C1_FiveAttempts ==
  \A t \in Tasks :
    LET c == calls[t]
    IN IsComplete(c) =>
         /\ c.remoteCalls <= 5
         /\ Exhausted(c) => c.remoteCalls = 5 /\ c.attempt = 5
         /\ c.pc = "backoff" => c.remoteCalls = c.attempt /\ c.attempt < 5
         /\ (c.pc = "done" /\ c.outcome.tag = "raise" /\ c.attempt < 5)
              => ~IsInstance(c.outcome.cls, "BedrockError")

C1_Witness ==
  \E t \in Tasks :
    /\ calls[t].kind = "bedrock_complete_if_cache"
    /\ Exhausted(calls[t])
    /\ calls[t].outcome.cause = "BedrockError"
    /\ calls[t].remoteCalls = 5

\* C2: an embedding call makes at most 3 attempts; it is given up for a
\* retryable error (one of the six listed classes or a subclass) only at the
\* third attempt, it sleeps for another attempt only after such an error, and
\* the error of an unfinished call that reaches the caller earlier is outside
\* the set: such an error ends the call in the attempt that raised it.
C2_ThreeAttempts ==
  \A t \in Tasks :
    LET c == calls[t]
    IN IsEmbed(c) =>
         /\ c.attempt <= 3
         /\ Exhausted(c) =>
              /\ c.attempt = 3
              /\ \E cls \in TransportErrors : IsInstance(c.outcome.cause, cls)
         /\ c.pc = "backoff" =>
              /\ c.attempt < 3
              /\ \E cls \in TransportErrors : IsInstance(c.pending.cls, cls)
         /\ (c.pc = "done" /\ c.outcome.tag = "raise" /\ ~Exhausted(c)) =>
              \A cls \in TransportErrors : ~IsInstance(c.outcome.cls, cls)

C2_Witness ==
  \E t \in Tasks :
    /\ IsEmbed(calls[t])
    /\ Exhausted(calls[t])
    /\ calls[t].outcome.cause \in TransportErrors
    /\ calls[t].attempt = 3
    /\ calls[t].remoteCalls = 3

\* C3 (as claimed): in a completion call, whatever fails while the client
\* session is opened or the converse request is issued reaches the retry
\* policy as BedrockError and is retried: no such failure reaches the caller
\* under its own class.
C3_AllFailuresWrapped ==
  \A t \in Tasks :
    LET c == calls[t]
    IN (IsComplete(c) /\ c.pc = "done" /\ c.outcome.tag = "raise")
         => c.outcome.cls \notin (OpenErrors \cup RemoteErrors)

\* C4 (as claimed): when every attempt failed with a retryable error, what
\* the caller receives after the last attempt is that error itself
\* (BedrockError for a completion call, the transport error for an embedding
\* call).
C4_ClassifiedErrorSurfaces ==
  \A t \in Tasks :
    LET c == calls[t]
    IN (c.pc = "done" /\ c.outcome.tag = "raise"
          /\ c.attempt = PolicyOf(c.kind).stop /\ c.outcome.cause # "")
         => c.outcome.cls = c.outcome.cause

\* C5: when the converse request succeeded (every attempt so far sent its
\* one request) but the response has no output.message.content[0].text, the
\* completion call ends there: the caller receives an error that is no
\* BedrockError, no further attempt is made and no further request sent, and
\* the session is closed.
C5_ShapeErrorNotRetried ==
  [][ \A t \in Tasks :
        LET c == calls[t]
            d == calls'[t]
        IN (IsComplete(c) /\ c.pending.tag = "malformed" /\ d # c)
             => /\ c.remoteCalls = c.attempt
                /\ d.pc = "done"
                /\ d.outcome.tag = "raise"
                /\ ~IsInstance(d.outcome.cls, "BedrockError")
                /\ d.outcome.cls # "RetryError"
                /\ d.attempt = c.attempt
                /\ d.remoteCalls = c.remoteCalls
                /\ d.sessions = {} ]_vars

C5_Witness ==
  \E t \in Tasks :
    /\ calls[t].kind = "bedrock_complete_if_cache"
    /\ calls[t].pc = "done"
    /\ calls[t].outcome = Raise("KeyError")
    /\ calls[t].attempt = 1
    /\ calls[t].remoteCalls = 1

\* C6: in both pipelines a call has at most one client session open, the one
\* its current attempt opened, and none while it waits to open one, sleeps
\* between attempts or has returned or raised.
C6_SessionScoped ==
  \A t \in Tasks :
    LET c == calls[t]
    IN /\ Cardinality(c.sessions) <= 1
       /\ c.sessions \subseteq {c.attempt}
       /\ c.pc \in {"converse", "dispatch", "invoke", "closing"}
            => c.sessions = {c.attempt}
       /\ c.pc \in {"idle", "ready", "opening", "backoff", "done"}
            => c.sessions = {}

C6_Witness ==
  \E t \in Tasks :
    /\ calls[t].pc = "backoff"
    /\ calls[t].attempt = 2
    /\ calls[t].remoteCalls = 2
    /\ calls[t].sessions = {}

\* C7 (as claimed): bedrock_complete called with keyword_extraction true
\* returns locate_json_string_body_from_string of the completion text, and
\* the text itself otherwise.
C7_KeywordExtraction ==
  \A t \in Tasks :
    LET c == calls[t]
    IN (c.kind = "bedrock_complete" /\ c.pc = "done" /\ c.outcome.tag = "return")
         => c.outcome.text = IF c.requested = "True"
                             THEN LocateJsonString(c.raw)
                             ELSE c.raw

\* C8: no step of a completion call (its first attempt or a retry) changes
\* a credential variable that is set, whatever the call supplies and however
\* the calls interleave: a variable keeps the value of its first writer.
C8_FirstWriterWins ==
  [][ \A t \in Tasks :
        (IsComplete(calls[t]) /\ calls'[t] # calls[t])
          => \A v \in CredVars : env[v] # Unset => env'[v] = env[v] ]_vars

C8_Witness ==
  \E v \in CredVars :
    /\ IsComplete(calls["t1"]) /\ IsComplete(calls["t2"])
    /\ calls["t1"].creds[v] = "c1" /\ calls["t2"].creds[v] = "c2"
    /\ calls["t1"].attempt >= 1 /\ calls["t2"].attempt >= 2
    /\ calls["t1"].replaced[v] = Unset
    /\ env[v] = "c1"

\* C9 (as claimed): a completion call without credentials leaves the three
\* credential variables as they were and goes on to build and issue the
\* request.
C9_NoCredentialsGoesOn ==
  \A t \in Tasks :
    LET c == calls[t]
    IN (IsComplete(c) /\ c.creds = NoCreds /\ c.attempt >= 1)
         => /\ c.replaced = NoCreds
            /\ ~(c.pc = "done" /\ c.outcome = Raise("TypeError"))

\* C10: the attempt of an embedding call that passes the region check sets
\* each credential variable whose credential is given (a non-empty value) to
\* that value, whatever it held, and leaves the others as they were.
C10_ExplicitEmbedCredentialsWin ==
  [][ \A t \in Tasks :
        (IsEmbed(calls[t]) /\ calls[t].pc \in {"ready", "backoff"}
           /\ calls'[t].pc = "opening")
          => \A v \in CredVars :
               env'[v] = IF Truthy(calls[t].creds[v]) THEN calls[t].creds[v]
                         ELSE env[v] ]_vars

C10_Witness ==
  \E v \in CredVars :
    /\ IsComplete(calls["t1"]) /\ calls["t1"].creds[v] = "c1"
    /\ calls["t1"].replaced[v] = Unset
    /\ IsEmbed(calls["t2"]) /\ calls["t2"].creds[v] = "c2"
    /\ calls["t2"].replaced[v] = "c1"
    /\ env[v] = "c2"
    /\ \E w \in CredVars : calls["t2"].creds[w] = None /\ env[w] = "c1"

\* C11: an embedding call made while AWS_REGION is not set ends in its first
\* attempt with the ValueError of the region check: it opens no session, sends
\* no request, has replaced no credential variable, and is never retried.
C11_NoRegionFailsFirst ==
  \A t \in Tasks :
    LET c == calls[t]
    IN (IsEmbed(c) /\ c.attempt >= 1 /\ env["AWS_REGION"] \in {Unset, Empty})
         => /\ c.pc = "done"
            /\ c.outcome = Raise("ValueError")
            /\ c.attempt = 1
            /\ c.remoteCalls = 0
            /\ c.sessions = {}
            /\ c.replaced = NoCreds
            /\ c.model = NoneText

C11_Witness ==
  \E t \in Tasks :
    /\ IsEmbed(calls[t])
    /\ env["AWS_REGION"] = Unset
    /\ \A v \in CredVars : calls[t].creds[v] = "c1" /\ env[v] = Unset
    /\ calls[t].texts # <<>>
    /\ calls[t].pc = "done"
    /\ calls[t].outcome = Raise("ValueError")
    /\ calls[t].attempt = 1

\* A model identifier bedrock_embed cannot shape a request for: a provider
\* prefix other than amazon and cohere, or an amazon identifier that contains
\* neither "v1" nor "v2".
Unsupported(model) ==
  LET provider == FirstSegment(model)
  IN \/ provider \notin {<<"a","m","a","z","o","n">>, <<"c","o","h","e","r","e">>}
     \/ /\ provider = <<"a","m","a","z","o","n">>
        /\ ~Contains(model, <<"v", "1">>)
        /\ ~Contains(model, <<"v", "2">>)

C13_CallsPerAttempt ==
  \A t \in Tasks :
    LET c == calls[t]
        provider == FirstSegment(c.model)
    IN (IsEmbed(c) /\ c.attempt = 1 /\ c.pc = "closing")
         => /\ (provider = <<"a","m","a","z","o","n">> /\ c.pending.tag = "return")
                 => c.remoteCalls = Len(c.texts)
            /\ provider = <<"c","o","h","e","r","e">> => c.remoteCalls = 1

\* C14 (as claimed): an embedding call for a supported model that no
\* transport failure stopped returns an array of len(texts) rows, row i being
\* the embedding the provider returned for texts[i].
C14_RowPerText ==
  \A t \in Tasks :
    LET c == calls[t]
    IN (IsEmbed(c) /\ c.pc = "done" /\ c.model # NoneText /\ ~Unsupported(c.model))
         => \/ /\ c.outcome.tag = "return"
               /\ Len(c.rows) = Len(c.texts)
               /\ \A i \in 1..Len(c.texts) : c.rows[i].text = c.texts[i]
            \/ /\ c.outcome.tag = "raise"
               /\ \/ c.outcome.cls \in OpenErrors \cup RemoteErrors
                  \/ c.outcome.cause \in OpenErrors \cup RemoteErrors

\* C20 (as claimed): every invoke_model request an embedding call prepares,
\* for an amazon and for a cohere model alike, names the model under modelId
\* and carries body, accept and contentType.
C20_SameRequestFields ==
  \A t \in Tasks :
    LET c == calls[t]
    IN (IsEmbed(c) /\ c.pc = "invoke")
         => InvokeArgs(FirstSegment(c.model))
              = {"modelId", "body", "accept", "contentType"}

\* The names of the members of a JSON object given as tokens.
JsonKeys(body) ==
  { body[i + 1] : i \in { j \in 1..(Len(body) - 3) :
                            body[j] = "\"" /\ body[j + 2] = "\"" /\ body[j + 3] = ":" } }

\* C18: every request an embedding call sends for an amazon model has the
\* body {"inputText": text, "embeddingTypes": ["float"]} when the model
\* identifier contains "v2" and {"inputText": text} when it contains "v1"
\* (and not "v2"), text being the next text of the list; the members of the
\* two bodies differ by embeddingTypes alone.
C18_AmazonBodyByVersion ==
  [][ \A t \in Tasks :
        LET c == calls[t]
            d == calls'[t]
            text == c.texts[Len(c.rows) + 1]
        IN (IsEmbed(c) /\ d.remoteCalls = c.remoteCalls + 1
              /\ FirstSegment(c.model) = <<"a","m","a","z","o","n">>)
             => /\ d.request.operation = "invoke_model"
                /\ Contains(c.model, <<"v", "2">>) =>
                     /\ d.request.body =
                          << "{", "\"", "inputText", "\"", ":", "\"", text, "\"", ",",
                             "\"", "embeddingTypes", "\"", ":",
                             "[", "\"", "float", "\"", "]", "}" >>
                     /\ JsonKeys(d.request.body) = {"inputText", "embeddingTypes"}
                /\ (~Contains(c.model, <<"v", "2">>) /\ Contains(c.model, <<"v", "1">>)) =>
                     /\ d.request.body =
                          << "{", "\"", "inputText", "\"", ":", "\"", text, "\"", "}" >>
                     /\ JsonKeys(d.request.body) = {"inputText"} ]_vars

C18_Witness ==
  \E t \in Tasks :
    /\ IsEmbed(calls[t])
    /\ calls[t].model = TitanV1
    /\ calls[t].remoteCalls = 2
    /\ calls[t].attempt = 1
    /\ calls[t].request.body
         = << "{", "\"", "inputText", "\"", ":", "\"", "y", "\"", "}" >>

\* C19: the rows an embedding call for an amazon model holds were all
\* received in its current attempt, row i for texts[i]: an attempt starts
\* from the first text with no row, whatever an earlier attempt collected, so
\* the array returned has len(texts) rows, all of the attempt that returned.
C19_RowsOfFinalAttempt ==
  \A t \in Tasks :
    LET c == calls[t]
    IN (IsEmbed(c) /\ FirstSegment(c.model) = <<"a","m","a","z","o","n">>)
         => /\ c.pc \in {"invoke", "closing", "done", "backoff"} =>
                 /\ Len(c.rows) <= Len(c.texts)
                 /\ \A i \in 1..Len(c.rows) :
                      c.rows[i] = Embedding(c.texts[i], c.rows[1].attempt)
            /\ c.pc \in {"invoke", "closing"} =>
                 \A i \in 1..Len(c.rows) : c.rows[i].attempt = c.attempt
            /\ (c.pc = "done" /\ c.outcome.tag = "return") =>
                 /\ Len(c.rows) = Len(c.texts)
                 /\ \A i \in 1..Len(c.rows) :
                      c.rows[i] = Embedding(c.texts[i], c.attempt)

C19_Witness ==
  \E t \in Tasks :
    /\ IsEmbed(calls[t])
    /\ calls[t].model = TitanV2
    /\ Len(calls[t].texts) = 2
    /\ calls[t].pc = "done"
    /\ calls[t].outcome.tag = "return"
    /\ calls[t].attempt = 2
    /\ calls[t].remoteCalls = 4
    /\ Len(calls[t].rows) = 2

\* What the claims say of the four recognized keys: each one given is in
\* inferenceConfig under its translated name with its value, and is no
\* top-level argument.
RecognizedMoved(kwargs, request) ==
  /\ "max_tokens" \in DOMAIN kwargs =>
       /\ "maxTokens" \in DOMAIN request.inferenceConfig
       /\ request.inferenceConfig["maxTokens"] = kwargs["max_tokens"]
  /\ "temperature" \in DOMAIN kwargs =>
       /\ "temperature" \in DOMAIN request.inferenceConfig
       /\ request.inferenceConfig["temperature"] = kwargs["temperature"]
  /\ "top_p" \in DOMAIN kwargs =>
       /\ "topP" \in DOMAIN request.inferenceConfig
       /\ request.inferenceConfig["topP"] = kwargs["top_p"]
  /\ "stop_sequences" \in DOMAIN kwargs =>
       /\ "stopSequences" \in DOMAIN request.inferenceConfig
       /\ request.inferenceConfig["stopSequences"] = kwargs["stop_sequences"]
  /\ Cardinality(DOMAIN request.inferenceConfig)
       = Cardinality(DOMAIN kwargs \cap InferenceParams)
  /\ "inferenceConfig" \in request.args <=> DOMAIN kwargs \cap InferenceParams # {}
  /\ request.args \cap InferenceParams = {}
  /\ DOMAIN request.passed \cap InferenceParams = {}

\* The unrecognized key k of kwargs is a top-level argument with its value.
PassedThrough(kwargs, request, k) ==
  /\ k \in request.args
  /\ k \in DOMAIN request.passed
  /\ request.passed[k] = kwargs[k]

C16_MessagesFromHistory ==
  \A t \in Tasks :
    LET c == calls[t]
        h == c.historyGiven
        m == c.request.messages
    IN (IsComplete(c) /\ c.request.operation = "converse")
         => /\ Len(m) = Len(h) + 1
            /\ \A i \in 1..Len(h) :
                 /\ m[i].role = h[i].role
                 /\ m[i].content = [wraps |-> 1, text |-> h[i].content.text]
            /\ m[Len(h) + 1] = [role |-> "user",
                                content |-> [wraps |-> 1, text |-> Prompt]]

C16_Witness ==
  \E t \in Tasks :
    /\ IsComplete(calls[t])
    /\ calls[t].pc = "converse"
    /\ Len(calls[t].historyGiven) = 2
    /\ calls[t].request.messages
         = << [role |-> "user", content |-> [wraps |-> 1, text |-> "h1"]],
              [role |-> "assistant", content |-> [wraps |-> 1, text |-> "h2"]],
              [role |-> "user", content |-> [wraps |-> 1, text |-> "p"]] >>

\* C17: every attempt of a completion call, the first and each retry, leaves
\* the caller's history as it was given (same length, every turn its plain
\* text), and a retry builds the message list the attempt before it built.
C17_HistoryNotMutated ==
  [][ \A t \in Tasks :
        LET c == calls[t]
            d == calls'[t]
        IN (IsComplete(d) /\ d.attempt = c.attempt + 1)
             => /\ d.history_messages = d.historyGiven
                /\ \A i \in 1..Len(d.history_messages) :
                     d.history_messages[i].content.wraps = 0
                /\ (d.request.operation = "converse" /\ c.attempt >= 1
                      /\ c.request.operation = "converse")
                     => d.request.messages = c.request.messages ]_vars

C17_Witness ==
  \E t \in Tasks :
    /\ IsComplete(calls[t])
    /\ calls[t].attempt = 3
    /\ calls[t].pc = "converse"
    /\ Len(calls[t].history_messages) = 2
    /\ calls[t].history_messages = calls[t].historyGiven
    /\ Len(calls[t].request.messages) = 3

====
